---- MODULE Spec2Model ----
(***************************************************************************)
(* A model of the Study Room session controller (components/study-room.tsx),*)
(* the voice panel (voice-input.tsx), the Read aloud button of a message   *)
(* (chat-message.tsx), the chat proxy route (app/api/chat) and the         *)
(* image-path rewrite the proxy applies to backend answers.                *)
(*                                                                         *)
(* Strings are sequences of one-character strings (or of longer chunks     *)
(* where only the chunk as a whole matters), so that trimming, template    *)
(* literals and the regular expression of the rewrite are computed.        *)
(***************************************************************************)
EXTENDS Integers, Sequences, FiniteSets, Bags, TLC

\* ------------------------------------------------------------------ bounds
\* accepted submissions per session
MaxSubmissions == 2
\* finalized utterances accumulated in one mounted voice panel
MaxDictation == 2
\* speech recognition instances alive at the same time
MaxRecognizers == 1
\* path segments of the paths the image rewrite is tried on
MaxSegments == 4

VARIABLES
    messages,         \* useState<Message[]>: the transcript
    inputValue,       \* useState(""): pendingInput
    isLoading,        \* useState(false): inFlight
    interactionMode,  \* useState("text")
    selectedImage,    \* useState<string | null>(null)
    enableReadAloud,  \* useState(false)
    fetches,          \* one entry per call of handleSendMessage that passed its guard
    chatRoute,        \* which version of app/api/chat/route.ts serves /api/chat
    transcript,       \* VoiceInput: useState(""), the dictation buffer
    isRecording,      \* VoiceInput: useState(false)
    recognizers,      \* the bag of SpeechRecognition instances that can still deliver events
    ignored,          \* history: flips at each call of handleSendMessage its guard ends
    synthQueue,       \* window.speechSynthesis: the utterances spoken (head) and queued
    readingAloud,     \* the Messages whose ChatMessage has isReadingAloud true
    hasRecognition,   \* window.SpeechRecognition || window.webkitSpeechRecognition
    hasSynthesis,     \* "speechSynthesis" in window
    alerts,           \* history: flips at each alert("Speech Recognition not supported ...")
    heard,            \* history: the last recognition event an onresult handler was given
                      \* and what it passed to onInput; flip changes at each event
    path,             \* image rewrite on its own: the path given
    segs,             \* image rewrite on its own: the segments the path was joined from
    resolved,         \* image rewrite on its own: the result
    phase,            \* image rewrite on its own: "in" before, "out" after
    currentPage,      \* Home: useState("dashboard"), the page that is mounted
    lateFetches,      \* the requests of StudyRooms that have been unmounted since
    visits,           \* history: how many times a StudyRoom has been mounted
    now,              \* Date.now()
    ids,              \* the id of each Message of messages, in their order
    requests,         \* history: the calls of fetch made, to /api/chat and to the backend
    kbVersion,        \* which version of components/knowledge-base.tsx is built
    selectedFiles,    \* KnowledgeBase: the files that wait to be uploaded
    isProcessing,     \* KnowledgeBase: useState(false)
    upload,           \* KnowledgeBase: the fetch of /api/upload
    kbError,          \* KnowledgeBase (second version): error, useState("")
    call,             \* a proxy handler on its own: the request it is given
    answer            \* a proxy handler on its own: the response it returns

vars == <<messages, inputValue, isLoading, interactionMode, selectedImage,
          enableReadAloud, fetches, chatRoute, transcript, isRecording,
          recognizers, ignored, synthQueue, readingAloud, hasRecognition,
          hasSynthesis, alerts, heard, path, segs, resolved, phase,
          currentPage, lateFetches, visits, now, ids, requests,
          kbVersion, selectedFiles, isProcessing, upload, kbError, call, answer>>

\* the StudyRoom, its voice panel and the browser under it
studyVars == <<messages, inputValue, isLoading, interactionMode, selectedImage,
               enableReadAloud, fetches, chatRoute, transcript, isRecording,
               recognizers, ignored, synthQueue, readingAloud, hasRecognition,
               hasSynthesis, alerts, heard>>

\* Home and what outlives a StudyRoom
pageVars == <<currentPage, lateFetches, visits>>

\* the KnowledgeBase
kbVars == <<kbVersion, selectedFiles, isProcessing, upload, kbError>>

\* a proxy handler on its own
proxyVars == <<call, answer>>

sessionVars == <<studyVars, pageVars, now, ids, requests, kbVars, proxyVars>>

resolverVars == <<path, segs, resolved, phase>>

\* what speechSynthesis holds and what the ChatMessages show of it
playbackVars == <<synthQueue, readingAloud>>

\* what the browser offers
capabilityVars == <<hasRecognition, hasSynthesis>>

\* ----------------------------------------------------------------- strings
\* a field that is absent from a JSON object (undefined)
Undefined == <<"undefined">>
\* an absent images field; an images list holds strings, so it has its own mark
NoImages == <<Undefined>>
\* selectedImage = null
Null == <<"null">>

\* no HTTP exchange yet
NoOutcome == [kind |-> "none"]
\* no upload dispatched yet
NoUpload == [state |-> "idle", files |-> <<>>, outcome |-> NoOutcome]
\* no request given to a proxy handler
NoCall == [route |-> "none", parsable |-> TRUE, backend |-> NoOutcome]
\* no fetch made yet
NoRequests == [chat |-> 0, backend |-> 0]

\* JavaScript truthiness of a string-or-undefined value
Truthy(s) == s # Undefined /\ s # <<>>

\* a || b on string-or-undefined values
OrElse(a, b) == IF Truthy(a) THEN a ELSE b

IsSpace(c) == c \in {" ", "\t", "\n"}

RECURSIVE TrimStart(_)
TrimStart(s) ==
    IF s = <<>> THEN <<>>
    ELSE IF IsSpace(Head(s)) THEN TrimStart(Tail(s)) ELSE s

RECURSIVE TrimEnd(_)
TrimEnd(s) ==
    IF s = <<>> THEN <<>>
    ELSE IF IsSpace(s[Len(s)]) THEN TrimEnd(SubSeq(s, 1, Len(s) - 1)) ELSE s

\* String.prototype.trim
Trim(s) == TrimEnd(TrimStart(s))

\* ------------------------------------------------------- the image rewrite
\* process.env.BACKEND_URL || "http://localhost:8080"
backendUrl ==
    <<"h","t","t","p",":","/","/","l","o","c","a","l","h","o","s","t",":","8","0","8","0">>

ApiImages == <<"/","a","p","i","/","i","m","a","g","e","s","/">>

SlashPage == <<"/","p","a","g","e","_">>

IsDigit(c) == c \in {"0","1","2","3","4","5","6","7","8","9"}

NoSlash(s) == \A k \in 1..Len(s) : s[k] # "/"

AllDigits(s) == \A k \in 1..Len(s) : IsDigit(s[k])

\* the indices of the "/" characters of p
Slashes(p) == { k \in 1..Len(p) : p[k] = "/" }

\* The match of /([^/]+)\/page_(\d+)\/([^/]+)$/ that begins at index s of p, as the
\* set of its (i, j): p[s..i-1] is group 1, p[i..i+5] is "/page_", p[i+6..j-1] is
\* group 2, p[j] is "/", p[j+1..] is group 3 and reaches the end of p.
MatchesAt(p, s) ==
    { ij \in Slashes(p) \X Slashes(p) :
        LET i == ij[1]
            j == ij[2]
        IN  /\ s < i
            /\ i + 6 < j
            /\ j < Len(p)
            /\ SubSeq(p, i, i + 5) = SlashPage
            /\ AllDigits(SubSeq(p, i + 6, j - 1))
            /\ NoSlash(SubSeq(p, s, i - 1))
            /\ NoSlash(SubSeq(p, j + 1, Len(p))) }

\* the regex with a ^ in front: only a match that begins the path counts
AnchoredMatchStarts(p) == { s \in 1..Len(p) : s = 1 /\ MatchesAt(p, s) # {} }

\* the indices at which a match begins (String.prototype.match takes the leftmost)
MatchStarts(p) == { s \in 1..Len(p) : MatchesAt(p, s) # {} }

\* path.match(...): [matched, pdfName, pageNum, filename], matched FALSE for null
ImageMatch(p) ==
    LET starts == MatchStarts(p)
    IN  IF starts = {}
        THEN [matched |-> FALSE, pdfName |-> <<>>, pageNum |-> <<>>, filename |-> <<>>]
        ELSE LET s  == CHOOSE x \in starts : \A y \in starts : x <= y
                 ij == CHOOSE x \in MatchesAt(p, s) : TRUE
             IN  [matched  |-> TRUE,
                  pdfName  |-> SubSeq(p, s, ij[1] - 1),
                  pageNum  |-> SubSeq(p, ij[1] + 6, ij[2] - 1),
                  filename |-> SubSeq(p, ij[2] + 1, Len(p))]

\* the arrow function given to data.images.map
ResolveImagePath(p) ==
    LET m == ImageMatch(p)
    IN  IF m.matched
        THEN backendUrl \o ApiImages \o m.pdfName \o <<"/","p","a","g","e","_">>
                \o m.pageNum \o <<"/">> \o m.filename
        ELSE p

\* Array.prototype.map with the arrow function
ResolveImages(list) == [k \in 1..Len(list) |-> ResolveImagePath(list[k])]

\* The paths the rewrite is tried on: up to MaxSegments segments joined by "/".
SegmentPool ==
    { <<>>,
      <<"d">>,
      <<"p","a","g","e","_">>,
      <<"p","a","g","e","_","1">>,
      <<"p","a","g","e","_","1","2">>,
      <<"p","a","g","e","_","1","x">>,
      <<"x","p","a","g","e","_","1">> }

RECURSIVE JoinSlash(_)
JoinSlash(ss) ==
    IF Len(ss) = 0 THEN <<>>
    ELSE IF Len(ss) = 1 THEN ss[1]
    ELSE ss[1] \o <<"/">> \o JoinSlash(Tail(ss))

SegmentLists == UNION { [1..n -> SegmentPool] : n \in 1..MaxSegments }

\* ------------------------------------------------- the rewrite on its own
InitResolver ==
    /\ segs \in SegmentLists
    /\ path = JoinSlash(segs)
    /\ resolved = <<>>
    /\ phase = "in"
    /\ messages = <<>>
    /\ inputValue = <<>>
    /\ isLoading = FALSE
    /\ interactionMode = "text"
    /\ selectedImage = Null
    /\ enableReadAloud = FALSE
    /\ fetches = <<>>
    /\ chatRoute = "resolving"
    /\ transcript = <<>>
    /\ isRecording = FALSE
    /\ recognizers = EmptyBag
    /\ ignored = FALSE
    /\ synthQueue = <<>>
    /\ readingAloud = {}
    /\ hasRecognition = TRUE
    /\ hasSynthesis = TRUE
    /\ alerts = FALSE
    /\ heard = [results |-> <<>>, forwarded |-> <<>>, flip |-> FALSE]
    /\ currentPage = "dashboard"
    /\ lateFetches = <<>>
    /\ visits = 0
    /\ now = 2
    /\ ids = <<>>
    /\ requests = NoRequests
    /\ kbVersion = "queue"
    /\ selectedFiles = <<>>
    /\ isProcessing = FALSE
    /\ upload = NoUpload
    /\ kbError = <<>>
    /\ call = NoCall
    /\ answer = NoOutcome

Resolve ==
    /\ phase = "in"
    /\ resolved' = ResolveImagePath(path)
    /\ phase' = "out"
    /\ UNCHANGED <<path, segs>>
    /\ UNCHANGED sessionVars

NextResolver == Resolve

SpecResolver == InitResolver /\ [][NextResolver]_vars


\* --------------------------------------------------------- the chat proxy
\* The JSON bodies that travel: { success, response, images, error }, each field
\* possibly absent.
Data(success, response, images, error) ==
    [success |-> success, response |-> response, images |-> images, error |-> error]

NoData == Data("undefined", Undefined, NoImages, Undefined)

\* an HTTP response as fetch resolves it: ok, status, and a body that response.json()
\* parses (parsable) to data, or rejects on
Response(ok, status, parsable, data) ==
    [kind |-> "response", ok |-> ok, status |-> status, parsable |-> parsable, data |-> data]

\* fetch rejected (no HTTP response at all)
Rejected ==
    [kind |-> "rejected", ok |-> FALSE, status |-> <<>>, parsable |-> FALSE, data |-> NoData]

\* a NextResponse.json({ error, success: false }) that leaves the status out
ErrorResponseOk(message, status) ==
    [kind |-> "response", ok |-> TRUE, status |-> <<"2","0","0">>, parsable |-> TRUE,
     data |-> Data("false", Undefined, NoImages, message)]

\* NextResponse.json({ error, success: false }, { status })
ErrorResponse(message, status) ==
    Response(FALSE, status, TRUE, Data("false", Undefined, NoImages, message))

\* backend paths and texts the backend answers are made of
LocalImage == <<"d","/","p","a","g","e","_","1","/","f">>
PlainImage == <<"n",".","p","n","g">>
ReplyText == <<"Entropy measures disorder.">>
BackendError == <<"index not built">>
Status200 == <<"2","0","0">>
Status500 == <<"5","0","0">>
Status404 == <<"4","0","4">>

\* What the backend can do with the proxy's request.
BackendOutcomes ==
    { Rejected,
      Response(FALSE, Status500, TRUE, Data("false", Undefined, NoImages, BackendError)),
      Response(TRUE, Status200, FALSE, NoData),
      Response(TRUE, Status200, TRUE, Data("true", ReplyText, <<PlainImage, LocalImage>>, Undefined)),
      Response(TRUE, Status200, TRUE, Data("true", <<>>, NoImages, Undefined)),
      Response(TRUE, Status200, TRUE, Data("true", Undefined, <<PlainImage>>, Undefined)),
      Response(TRUE, Status200, TRUE, Data("false", Undefined, NoImages, BackendError)),
      Response(TRUE, Status200, TRUE, Data("false", Undefined, NoImages, Undefined)),
      Response(TRUE, Status200, TRUE, Data("undefined", ReplyText, NoImages, Undefined)) }

SyntaxErrorMessage == <<"Unexpected token < in JSON at position 0">>

\* error.message of what the proxy's try block throws on a backend outcome
ProxyErrorMessage(b) ==
    IF b.kind = "rejected" THEN <<"fetch failed">>
    ELSE IF ~b.ok THEN <<"Backend returned ">> \o b.status
    ELSE SyntaxErrorMessage

\* data.images left as the backend gave it
RelayedData(d) == d

\* data.images rewritten when it is an array
ResolvedData(d) ==
    IF d.images # NoImages
    THEN [d EXCEPT !.images = ResolveImages(d.images)]
    ELSE d

\* POST of the chat route that rewrites image paths
PostResolving(b) ==
    IF b.kind = "rejected" \/ ~b.ok \/ ~b.parsable
    THEN ErrorResponse(ProxyErrorMessage(b), Status500)
    ELSE Response(TRUE, Status200, TRUE, ResolvedData(b.data))

\* POST of the chat route that relays the backend's status and data
PostRelaying(b) ==
    IF b.kind = "rejected" \/ (b.ok /\ ~b.parsable)
    THEN ErrorResponse(<<"Could not connect to Python backend. Is it running on port 8080?">>,
                       Status500)
    ELSE IF ~b.ok
    THEN ErrorResponse(<<"Backend refused connection (">> \o b.status \o <<")">>, b.status)
    ELSE Response(TRUE, Status200, TRUE, RelayedData(b.data))

ChatRoutes == {"resolving", "relaying"}

\* the answers of the route behind /api/chat, by route and backend outcome
Post ==
    [route \in ChatRoutes |->
        [b \in BackendOutcomes |->
            IF route = "resolving" THEN PostResolving(b) ELSE PostRelaying(b)]]

\* What fetch("/api/chat") settles with when the route is not what answers: a
\* rejection (the frontend server cannot be reached), or an answer of the server in
\* front of the route (an HTML page, a JSON 404).
ServerOutcomes ==
    { Rejected,
      Response(FALSE, Status500, FALSE, NoData),
      Response(TRUE, Status200, FALSE, NoData),
      Response(FALSE, Status404, TRUE, NoData) }

\* Where a settled fetch("/api/chat") got its result from: the route, which asked the
\* backend and got b, or the server in front of it.
ViaRoute(b) == [via |-> "route", backend |-> b]
ViaServer(o) == [via |-> "server", backend |-> o]
Origins == { ViaRoute(b) : b \in BackendOutcomes } \cup { ViaServer(o) : o \in ServerOutcomes }
NoOrigin == [via |-> "none", backend |-> Rejected]

\* what fetch("/api/chat") settles with
Settled(route, origin) ==
    IF origin.via = "route" THEN Post[route][origin.backend] ELSE origin.backend

\* ------------------------------------------------------- the Study Room
GreetingText ==
    <<"Hello! I'm your AI tutor. Ask me anything about your uploaded materials or any topic you'd like to learn about.">>

FallbackText == <<"I received your question but couldn't generate a response.">>

ErrorPrefix == <<"(x) Error: ">>

ErrorHelp ==
    <<"\n\nMake sure the Python backend is running:\n1. Open terminal\n2. Run: python api_server.py\n3. Check http://localhost:8080/health">>

\* A Message; req is history: the call of handleSendMessage that appended it (0 for
\* the greeting the state is seeded with).
Message(role, content, images, req) ==
    [role |-> role, content |-> content, images |-> images, req |-> req]

Greeting == Message("assistant", GreetingText, NoImages, 0)

\* userMessage
UserMessage(text, req) == Message("user", text, NoImages, req)

\* assistantMessage without the fallback text: content: data.response
AssistantMessageBare(data, req) ==
    Message("assistant",
            data.response,
            IF data.images = NoImages THEN <<>> ELSE data.images,
            req)

\* assistantMessage
AssistantMessage(data, req) ==
    Message("assistant",
            OrElse(data.response, FallbackText),
            IF data.images = NoImages THEN <<>> ELSE data.images,
            req)

\* errorMessage, with the text of the branch for what is not an Error
ErrorMessageUnknown(message, req) ==
    Message("assistant", <<"(x) An unknown error occurred. Please check the console.">>,
            NoImages, req)

\* errorMessage (what the try block throws is always an Error)
ErrorMessage(message, req) ==
    Message("assistant", ErrorPrefix \o message \o ErrorHelp, NoImages, req)

\* What the try block does with what fetch settled with: it throws an Error with
\* message, or reaches assistantMessage with data.
Thrown(message) == [threw |-> TRUE, message |-> message, data |-> NoData]

Interpret(o) ==
    IF o.kind = "rejected" THEN Thrown(<<"Failed to fetch">>)
    ELSE IF ~o.parsable THEN Thrown(SyntaxErrorMessage)
    ELSE IF ~o.ok THEN Thrown(OrElse(o.data.error, <<"Server error: ">> \o o.status))
    ELSE IF o.data.success # "true"
    THEN Thrown(OrElse(o.data.error, <<"Failed to get response from AI">>))
    ELSE [threw |-> FALSE, message |-> <<>>, data |-> o.data]

\* what the try block does, by route and origin
Outcome ==
    [route \in ChatRoutes |-> [origin \in Origins |-> Interpret(Settled(route, origin))]]

\* a finally block that is skipped when the try block threw
FinallyRunsUnlessThrown(threw) == ~threw

\* the finally block runs however the try block ended
FinallyRuns(threw) == TRUE

\* the guard of handleSendMessage, without the trim
IsBlankUntrimmed(text) == text = <<>>

\* !inputValue.trim()
IsBlank(text) == Trim(text) = <<>>

\* what the user can type into the text input
TypedTexts == { <<>>, <<" ">>, <<" ","a"," ">> }

\* the finalized utterances speech recognition can deliver
Utterances == { <<"b">> }

\* heard before any recognition event
NoEvent == [results |-> <<>>, forwarded |-> <<>>, flip |-> FALSE]

\* the state a mounted StudyRoom starts in, in whatever browser
Mounted ==
    /\ messages = <<Greeting>>
    /\ inputValue = <<>>
    /\ isLoading = FALSE
    /\ interactionMode = "text"
    /\ selectedImage = Null
    /\ enableReadAloud = FALSE
    /\ fetches = <<>>
    /\ chatRoute \in ChatRoutes
    /\ transcript = <<>>
    /\ isRecording = FALSE
    /\ recognizers = EmptyBag
    /\ ignored = FALSE
    /\ synthQueue = <<>>
    /\ readingAloud = {}
    /\ alerts = FALSE
    /\ heard = NoEvent
    /\ path = <<>>
    /\ segs = <<>>
    /\ resolved = <<>>
    /\ phase = "idle"
    /\ lateFetches = <<>>
    /\ now = 2
    /\ ids = <<1>>
    /\ requests = NoRequests

\* the state a mounted KnowledgeBase starts in
KnowledgeBaseMounted ==
    /\ selectedFiles = <<>>
    /\ isProcessing = FALSE
    /\ upload = NoUpload
    /\ kbError = <<>>

\* no proxy handler is looked at on its own
ProxyIdle ==
    /\ call = NoCall
    /\ answer = NoOutcome

\* Home shows the Study Room, for the first time
StudyRoomShown ==
    /\ currentPage = "study"
    /\ visits = 1
    /\ kbVersion = "queue"
    /\ KnowledgeBaseMounted
    /\ ProxyIdle

\* a browser with speech recognition and speech synthesis
Init ==
    /\ Mounted
    /\ StudyRoomShown
    /\ hasRecognition = TRUE
    /\ hasSynthesis = TRUE

\* a browser that lacks speech recognition, speech synthesis, or both
InitDegraded ==
    /\ Mounted
    /\ StudyRoomShown
    /\ hasRecognition \in BOOLEAN
    /\ hasSynthesis \in BOOLEAN
    /\ ~(hasRecognition /\ hasSynthesis)

voiceVars == <<transcript, isRecording, recognizers>>

\* setMessages((prev) => [msg, ...prev])
Prepended(prev, msg) == <<msg>> \o prev

\* setMessages((prev) => [msg])
Replacing(prev, msg) == <<msg>>

\* setMessages((prev) => [...prev, msg])
Appended(prev, msg) == Append(prev, msg)

\* handleSendMessage up to its await: the guard, the user Turn, the dispatch. The
\* call runs in the closure of the render it was made from, so what it reads of
\* enableReadAloud after the await is the value of that render: narrate keeps it.
handleSendMessage ==
    IF IsBlank(inputValue)
    THEN /\ ignored' = ~ignored
         /\ UNCHANGED <<messages, inputValue, isLoading, fetches, ids, requests>>
    ELSE /\ Len(fetches) < MaxSubmissions
         /\ messages' = Appended(messages, UserMessage(inputValue, Len(fetches) + 1))
         /\ ids' = Append(ids, now)
         /\ requests' = [requests EXCEPT !.chat = @ + 1]
         /\ inputValue' = <<>>
         /\ isLoading' = TRUE
         /\ fetches' = Append(fetches, [state |-> "pending", message |-> inputValue,
                                        cleared |-> 0, origin |-> NoOrigin,
                                        narrate |-> enableReadAloud])
         /\ UNCHANGED ignored

\* onChange of the text input (the input is disabled while loading)
Type ==
    /\ interactionMode = "text"
    /\ ~isLoading
    /\ \E t \in TypedTexts : inputValue' = t
    /\ UNCHANGED <<messages, isLoading, interactionMode, selectedImage, enableReadAloud,
                   fetches, chatRoute, ignored>>
    /\ UNCHANGED voiceVars
    /\ UNCHANGED resolverVars
    /\ UNCHANGED <<pageVars, kbVars, proxyVars, now>>
    /\ UNCHANGED <<ids, requests>>
    /\ UNCHANGED <<playbackVars, capabilityVars, alerts, heard>>

\* onKeyPress without the test of isLoading: e.key === "Enter" && handleSendMessage()
PressEnterUnguarded ==
    /\ interactionMode = "text"
    /\ handleSendMessage
    /\ UNCHANGED <<interactionMode, selectedImage, enableReadAloud, chatRoute>>
    /\ UNCHANGED voiceVars
    /\ UNCHANGED resolverVars
    /\ UNCHANGED <<pageVars, kbVars, proxyVars, now>>
    /\ UNCHANGED <<playbackVars, capabilityVars, alerts, heard>>

\* onKeyPress of the text input: e.key === "Enter" && !isLoading && handleSendMessage()
PressEnter ==
    /\ interactionMode = "text"
    /\ ~isLoading
    /\ handleSendMessage
    /\ UNCHANGED <<interactionMode, selectedImage, enableReadAloud, chatRoute>>
    /\ UNCHANGED voiceVars
    /\ UNCHANGED resolverVars
    /\ UNCHANGED <<pageVars, kbVars, proxyVars, now>>
    /\ UNCHANGED <<playbackVars, capabilityVars, alerts, heard>>

\* onClick of the text Send button, disabled={!inputValue.trim() || isLoading}
ClickSend ==
    /\ interactionMode = "text"
    /\ ~IsBlank(inputValue)
    /\ ~isLoading
    /\ handleSendMessage
    /\ UNCHANGED <<interactionMode, selectedImage, enableReadAloud, chatRoute>>
    /\ UNCHANGED voiceVars
    /\ UNCHANGED resolverVars
    /\ UNCHANGED <<pageVars, kbVars, proxyVars, now>>
    /\ UNCHANGED <<playbackVars, capabilityVars, alerts, heard>>

\* onClick of the voice panel's Send button, rendered when transcript is not empty
VoiceSend ==
    /\ interactionMode = "voice"
    /\ transcript # <<>>
    /\ handleSendMessage
    /\ UNCHANGED <<interactionMode, selectedImage, enableReadAloud, chatRoute>>
    /\ UNCHANGED voiceVars
    /\ UNCHANGED resolverVars
    /\ UNCHANGED <<pageVars, kbVars, proxyVars, now>>
    /\ UNCHANGED <<playbackVars, capabilityVars, alerts, heard>>

\* the Turn the try block or the catch block appends
ReplyMessage(res, req) ==
    IF res.threw THEN ErrorMessage(res.message, req) ELSE AssistantMessage(res.data, req)

\* A SpeechSynthesisUtterance in the queue of speechSynthesis: its text, and the
\* Message whose ChatMessage gave it an onend handler (0: it has no handler).
Utterance(text, owner) == [text |-> text, owner |-> owner]

\* speechSynthesis.speak(utterance): the utterance joins the queue, and is spoken
\* when the ones before it have been
Speak(queue, utterance) == Append(queue, utterance)

\* the test before the narration of a reply, without the test of the capability
NarratesUnchecked(narrate, synthesis, response) == narrate /\ Truthy(response)

\* enableReadAloud && "speechSynthesis" in window && data.response
Narrates(narrate, synthesis, response) == narrate /\ synthesis /\ Truthy(response)

\* a proxy that asks the backend again when the backend failed it
BackendFetchesRetrying(origin) ==
    IF origin.via # "route" THEN 0
    ELSE IF origin.backend.kind = "response" /\ origin.backend.ok THEN 1
    ELSE 2

\* the calls of fetch POST makes for one request: one, when the request reaches it
BackendFetches(origin) == IF origin.via = "route" THEN 1 ELSE 0

\* handleSendMessage from its await on: fetch settles with a result that comes from
\* one of origins, then try/catch/finally
SettleFrom(origins) ==
    \E r \in 1..Len(fetches) : \E origin \in origins :
        LET res == Outcome[chatRoute][origin]
        IN  /\ fetches[r].state = "pending"
            /\ messages' = Appended(messages, ReplyMessage(res, r))
            /\ ids' = Append(ids, now + 1)
            /\ requests' = [requests EXCEPT !.backend = @ + BackendFetches(origin)]
            /\ synthQueue' =
                   IF ~res.threw /\ Narrates(fetches[r].narrate, hasSynthesis, res.data.response)
                   THEN Speak(synthQueue, Utterance(res.data.response, 0))
                   ELSE synthQueue
            /\ isLoading' = IF FinallyRuns(res.threw) THEN FALSE ELSE isLoading
            /\ fetches' = [fetches EXCEPT ![r] =
                              [state |-> "settled", message |-> @.message,
                               cleared |-> @.cleared + (IF FinallyRuns(res.threw) THEN 1 ELSE 0),
                               origin |-> origin, narrate |-> @.narrate]]
            /\ UNCHANGED <<inputValue, interactionMode, selectedImage, enableReadAloud,
                           chatRoute, ignored>>
            /\ UNCHANGED voiceVars
            /\ UNCHANGED resolverVars
            /\ UNCHANGED <<pageVars, kbVars, proxyVars, now>>
            /\ UNCHANGED <<readingAloud, capabilityVars, alerts, heard>>

\* a round trip with any result
Settle == SettleFrom(Origins)

\* the two results the session with the voice panel is explored with: an answer with
\* images, and a backend that cannot be reached
TypicalOrigins ==
    { ViaRoute(Response(TRUE, Status200, TRUE,
                        Data("true", ReplyText, <<PlainImage, LocalImage>>, Undefined))),
      ViaRoute(Rejected) }

SettleTypical == SettleFrom(TypicalOrigins)

\* an instance whose panel is unmounted: its handlers stay, recognitionRef is gone
Orphaned(rec) == [rec EXCEPT !.mounted = FALSE, !.ref = FALSE]

\* a mode button that also clears the input: setInteractionMode(mode), setInputValue("")
SetInteractionModeClearing ==
    \E mode \in {"text", "voice"} :
        /\ interactionMode' = mode
        /\ inputValue' = <<>>
        /\ IF mode # interactionMode
           THEN /\ transcript' = <<>>
                /\ isRecording' = FALSE
                /\ recognizers' = BagOfAll(Orphaned, recognizers)
           ELSE UNCHANGED voiceVars
        /\ UNCHANGED <<messages, isLoading, selectedImage, enableReadAloud,
                       fetches, chatRoute, ignored>>
        /\ UNCHANGED resolverVars
        /\ UNCHANGED <<pageVars, kbVars, proxyVars, now>>
        /\ UNCHANGED <<ids, requests>>
        /\ UNCHANGED <<playbackVars, capabilityVars, alerts, heard>>

\* onClick of a mode button: setInteractionMode(mode). The voice panel is rendered
\* only in voice mode, so leaving it unmounts VoiceInput (its state is dropped; it
\* has no cleanup, so its recognition instances live on) and entering it mounts a
\* fresh one.
SetInteractionMode ==
    \E mode \in {"text", "voice"} :
        /\ interactionMode' = mode
        /\ IF mode # interactionMode
           THEN /\ transcript' = <<>>
                /\ isRecording' = FALSE
                /\ recognizers' = BagOfAll(Orphaned, recognizers)
           ELSE UNCHANGED voiceVars
        /\ UNCHANGED <<messages, inputValue, isLoading, selectedImage, enableReadAloud,
                       fetches, chatRoute, ignored>>
        /\ UNCHANGED resolverVars
        /\ UNCHANGED <<pageVars, kbVars, proxyVars, now>>
        /\ UNCHANGED <<ids, requests>>
        /\ UNCHANGED <<playbackVars, capabilityVars, alerts, heard>>

\* onClick of the Read Aloud button: setEnableReadAloud(!enableReadAloud)
ToggleReadAloud ==
    /\ enableReadAloud' = ~enableReadAloud
    /\ UNCHANGED <<messages, inputValue, isLoading, interactionMode, selectedImage,
                   fetches, chatRoute, ignored>>
    /\ UNCHANGED voiceVars
    /\ UNCHANGED resolverVars
    /\ UNCHANGED <<pageVars, kbVars, proxyVars, now>>
    /\ UNCHANGED <<ids, requests>>
    /\ UNCHANGED <<playbackVars, capabilityVars, alerts, heard>>

\* the images the transcript renders (ChatMessage: message.images.map)
RenderedImages ==
    UNION { { messages[k].images[n] : n \in 1..Len(messages[k].images) } :
            k \in { x \in 1..Len(messages) : messages[x].images # NoImages } }

\* onClick of a rendered image: onImageClick(img), which is setSelectedImage
ImageClick ==
    /\ \E img \in RenderedImages : selectedImage' = img
    /\ UNCHANGED <<messages, inputValue, isLoading, interactionMode, enableReadAloud,
                   fetches, chatRoute, ignored>>
    /\ UNCHANGED voiceVars
    /\ UNCHANGED resolverVars
    /\ UNCHANGED <<pageVars, kbVars, proxyVars, now>>
    /\ UNCHANGED <<ids, requests>>
    /\ UNCHANGED <<playbackVars, capabilityVars, alerts, heard>>

\* an onClose that also clears the input: setSelectedImage(null), setInputValue("")
CloseZoomClearing ==
    /\ selectedImage # Null
    /\ selectedImage # <<>>
    /\ selectedImage' = Null
    /\ inputValue' = <<>>
    /\ UNCHANGED <<messages, isLoading, interactionMode, enableReadAloud,
                   fetches, chatRoute, ignored>>
    /\ UNCHANGED voiceVars
    /\ UNCHANGED resolverVars
    /\ UNCHANGED <<pageVars, kbVars, proxyVars, now>>
    /\ UNCHANGED <<ids, requests>>
    /\ UNCHANGED <<playbackVars, capabilityVars, alerts, heard>>

\* onClose of ImageZoomModal, rendered when selectedImage is truthy
CloseZoom ==
    /\ selectedImage # Null
    /\ selectedImage # <<>>
    /\ selectedImage' = Null
    /\ UNCHANGED <<messages, inputValue, isLoading, interactionMode, enableReadAloud,
                   fetches, chatRoute, ignored>>
    /\ UNCHANGED voiceVars
    /\ UNCHANGED resolverVars
    /\ UNCHANGED <<pageVars, kbVars, proxyVars, now>>
    /\ UNCHANGED <<ids, requests>>
    /\ UNCHANGED <<playbackVars, capabilityVars, alerts, heard>>

\* ------------------------------------------------------------- read aloud
\* the Messages whose onend handler an utterance of the queue carries
Owners(queue) == { queue[n].owner : n \in 1..Len(queue) }

\* speechSynthesis.cancel() empties the queue. The utterances it removes get their
\* end event from some browsers (ended: their onend handlers run) and only an error
\* event from others (no handler is set for it).
Cancelled(reading, queue, ended) == IF ended THEN reading \ Owners(queue) ELSE reading

\* handleReadAloud of the ChatMessage of an assistant Message (its button is
\* rendered while enableReadAloud is true)
handleReadAloud ==
    \E k \in 1..Len(messages) :
        /\ messages[k].role = "assistant"
        /\ enableReadAloud
        /\ IF ~hasSynthesis
           THEN UNCHANGED playbackVars
           ELSE IF k \in readingAloud
           THEN \E ended \in BOOLEAN :
                    /\ synthQueue' = <<>>
                    /\ readingAloud' = Cancelled(readingAloud, synthQueue, ended) \ {k}
           ELSE /\ synthQueue' = Speak(synthQueue, Utterance(messages[k].content, k))
                /\ readingAloud' = readingAloud \cup {k}
        /\ UNCHANGED <<messages, inputValue, isLoading, interactionMode, selectedImage,
                       enableReadAloud, fetches, chatRoute, ignored>>
        /\ UNCHANGED voiceVars
        /\ UNCHANGED resolverVars
        /\ UNCHANGED <<pageVars, kbVars, proxyVars, now>>
        /\ UNCHANGED <<ids, requests>>
        /\ UNCHANGED <<capabilityVars, alerts, heard>>

\* the utterance being spoken has been spoken to its end: its end event fires
\* (utterance.onend, when it has one, runs setIsReadingAloud(false)) and the next
\* utterance of the queue is spoken
UtteranceEnds ==
    /\ synthQueue # <<>>
    /\ synthQueue' = Tail(synthQueue)
    /\ readingAloud' = readingAloud \ {Head(synthQueue).owner}
    /\ UNCHANGED <<messages, inputValue, isLoading, interactionMode, selectedImage,
                   enableReadAloud, fetches, chatRoute, ignored>>
    /\ UNCHANGED voiceVars
    /\ UNCHANGED resolverVars
    /\ UNCHANGED <<pageVars, kbVars, proxyVars, now>>
    /\ UNCHANGED <<ids, requests>>
    /\ UNCHANGED <<capabilityVars, alerts, heard>>

\* ------------------------------------------------------- the voice panel
\* A SpeechRecognition instance: state is "starting" from start() to its onstart,
\* "running" from then on, "stopping" from stop() to its onend; mounted tells whether
\* the VoiceInput that created it (whose setters its handlers call) is still mounted;
\* ref tells whether recognitionRef.current is this instance.
Recognizer(state, mounted, ref) == [state |-> state, mounted |-> mounted, ref |-> ref]

\* recognitionRef.current is overwritten
Unreferenced(rec) == [rec EXCEPT !.ref = FALSE]

\* recognitionRef.current.stop()
Stopped(rec) ==
    IF rec.ref /\ rec.state \in {"starting", "running"}
    THEN [rec EXCEPT !.state = "stopping"]
    ELSE rec

\* the bag with one copy of rec replaced by to
Replaced(bag, rec, to) == (bag (-) SetToBag({rec})) (+) SetToBag({to})

\* startRecording (the Start button is rendered while isRecording is false): without
\* the capability an alert and nothing else; with it a new SpeechRecognition takes
\* recognitionRef.current and is started. At most cap instances are alive.
StartRecording(cap) ==
    /\ interactionMode = "voice"
    /\ ~isRecording
    /\ IF ~hasRecognition
       THEN /\ alerts' = ~alerts
            /\ UNCHANGED recognizers
       ELSE /\ BagCardinality(recognizers) < cap
            /\ recognizers' = BagOfAll(Unreferenced, recognizers)
                                  (+) SetToBag({Recognizer("starting", TRUE, TRUE)})
            /\ UNCHANGED alerts
    /\ UNCHANGED <<messages, inputValue, isLoading, interactionMode, selectedImage,
                   enableReadAloud, fetches, chatRoute, ignored, transcript, isRecording>>
    /\ UNCHANGED resolverVars
    /\ UNCHANGED <<pageVars, kbVars, proxyVars, now>>
    /\ UNCHANGED <<ids, requests>>
    /\ UNCHANGED <<playbackVars, capabilityVars, heard>>

startRecording == StartRecording(MaxRecognizers)

\* stopRecording (the Stop button is rendered while isRecording is true):
\* recognitionRef.current.stop()
stopRecording ==
    /\ interactionMode = "voice"
    /\ isRecording
    /\ recognizers' = BagOfAll(Stopped, recognizers)
    /\ UNCHANGED <<messages, inputValue, isLoading, interactionMode, selectedImage,
                   enableReadAloud, fetches, chatRoute, ignored, transcript, isRecording>>
    /\ UNCHANGED resolverVars
    /\ UNCHANGED <<pageVars, kbVars, proxyVars, now>>
    /\ UNCHANGED <<ids, requests>>
    /\ UNCHANGED <<playbackVars, capabilityVars, alerts, heard>>

\* onstart of an instance: setIsRecording(true), of the panel that created it
onstart ==
    \E rec \in BagToSet(recognizers) :
        /\ rec.state = "starting"
        /\ recognizers' = Replaced(recognizers, rec, [rec EXCEPT !.state = "running"])
        /\ isRecording' = IF rec.mounted THEN TRUE ELSE isRecording
        /\ UNCHANGED <<messages, inputValue, isLoading, interactionMode, selectedImage,
                       enableReadAloud, fetches, chatRoute, ignored, transcript>>
        /\ UNCHANGED resolverVars
        /\ UNCHANGED <<pageVars, kbVars, proxyVars, now>>
        /\ UNCHANGED <<ids, requests>>
        /\ UNCHANGED <<playbackVars, capabilityVars, alerts, heard>>

\* onend of an instance (stopped, or ended by the browser): setIsRecording(false)
onend ==
    \E rec \in BagToSet(recognizers) :
        /\ recognizers' = recognizers (-) SetToBag({rec})
        /\ isRecording' = IF rec.mounted THEN FALSE ELSE isRecording
        /\ UNCHANGED <<messages, inputValue, isLoading, interactionMode, selectedImage,
                       enableReadAloud, fetches, chatRoute, ignored, transcript>>
        /\ UNCHANGED resolverVars
        /\ UNCHANGED <<pageVars, kbVars, proxyVars, now>>
        /\ UNCHANGED <<ids, requests>>
        /\ UNCHANGED <<playbackVars, capabilityVars, alerts, heard>>

\* a handleVoiceInput that adds to the input: setInputValue(inputValue + text)
handleVoiceInputAppending(text) == inputValue' = inputValue \o text

\* handleVoiceInput
handleVoiceInput(text) == inputValue' = text

\* the dictation buffer holds fewer than MaxDictation utterances
DictationHasRoom == Len(transcript) < 2 * MaxDictation

\* event.results[i] of a recognition event: the text heard, and whether it is final
Result(text, isFinal) == [transcript |-> text, isFinal |-> isFinal]

\* the loop of onresult, with every result taken as final
RECURSIVE FinalsAndInterims(_)
FinalsAndInterims(results) ==
    IF results = <<>> THEN <<>>
    ELSE <<Head(results).transcript>> \o FinalsAndInterims(Tail(results))

\* the loop of onresult: the texts of the results with isFinal, in order (the others
\* go to the local interimTranscript, which nothing reads)
RECURSIVE Finals(_)
Finals(results) ==
    IF results = <<>> THEN <<>>
    ELSE (IF Head(results).isFinal THEN <<Head(results).transcript>> ELSE <<>>)
             \o Finals(Tail(results))

\* setTranscript((prev) => transcript) for each final text
RECURSIVE DictatedLast(_, _)
DictatedLast(prev, finals) ==
    IF finals = <<>> THEN prev ELSE DictatedLast(Head(finals), Tail(finals))

\* setTranscript((prev) => prev + " " + transcript) for each final text
RECURSIVE Dictated(_, _)
Dictated(prev, finals) ==
    IF finals = <<>> THEN prev
    ELSE Dictated(prev \o <<" ">> \o Head(finals), Tail(finals))

\* onresult of an instance, given one of events (the results from event.resultIndex
\* on): for each final result setTranscript, of the panel that created the instance,
\* and onInput(text)
onresultOf(events) ==
    \E rec \in BagToSet(recognizers) : \E results \in events :
        LET finals == Finals(results)
        IN  /\ rec.state \in {"running", "stopping"}
            /\ DictationHasRoom
            /\ transcript' = IF rec.mounted THEN Dictated(transcript, finals) ELSE transcript
            /\ IF finals = <<>>
               THEN UNCHANGED inputValue
               ELSE handleVoiceInput(finals[Len(finals)])
            /\ heard' = [results |-> results, forwarded |-> finals, flip |-> ~heard.flip]
            /\ UNCHANGED <<messages, isLoading, interactionMode, selectedImage,
                           enableReadAloud, fetches, chatRoute, ignored, isRecording,
                           recognizers>>
            /\ UNCHANGED resolverVars
            /\ UNCHANGED <<pageVars, kbVars, proxyVars, now>>
            /\ UNCHANGED <<ids, requests>>
            /\ UNCHANGED <<playbackVars, capabilityVars, alerts>>

\* events of one final result
FinalEvents == { <<Result(u, TRUE)>> : u \in Utterances }

\* events with interim results and with several final results
RecognitionEvents ==
    FinalEvents \cup
    { <<Result(<<"c">>, FALSE)>>,
      <<Result(<<"b">>, TRUE), Result(<<"c">>, FALSE)>>,
      <<Result(<<"d">>, TRUE), Result(<<"b">>, TRUE)>> }

\* a recognition event with one final result
onresult == onresultOf(FinalEvents)

\* any recognition event
onresultAny == onresultOf(RecognitionEvents)

\* a second click of Start Recording can come before the first instance's onstart
startRecordingAgain == StartRecording(MaxRecognizers + 1)

\* The session with the voice panel: every way to submit, round trips with the
\* typical results.
Next ==
    \/ Type
    \/ PressEnter
    \/ ClickSend
    \/ VoiceSend
    \/ SettleTypical
    \/ SetInteractionMode
    \/ startRecording
    \/ stopRecording
    \/ onstart
    \/ onend
    \/ onresult

Spec == Init /\ [][Next]_vars

\* The session in text mode: round trips with every result, the Read Aloud toggle and
\* the image viewer.
NextRoundTrip ==
    \/ Type
    \/ PressEnter
    \/ ClickSend
    \/ Settle
    \/ ToggleReadAloud
    \/ ImageClick
    \/ CloseZoom

SpecRoundTrip == Init /\ [][NextRoundTrip]_vars

\* fetch settles: every outstanding request is eventually answered or fails
FairRoundTrip == SpecRoundTrip /\ WF_vars(Settle)

\* The session with narration: submissions in text mode, the Read Aloud toggle, the
\* Read aloud buttons of the Messages and the end of utterances.
NextPlayback ==
    \/ Type
    \/ ClickSend
    \/ SettleTypical
    \/ ToggleReadAloud
    \/ handleReadAloud
    \/ UtteranceEnds

SpecPlayback == Init /\ [][NextPlayback]_vars

\* the browser with both capabilities, the chat route that rewrites image paths
InitVoice ==
    /\ Init
    /\ chatRoute = "resolving"

\* The voice panel: recognition events of every kind, mode switches, and submissions
\* from the panel.
NextVoice ==
    \/ SetInteractionMode
    \/ startRecording
    \/ stopRecording
    \/ onstart
    \/ onend
    \/ onresultAny
    \/ VoiceSend
    \/ SettleTypical

SpecVoice == InitVoice /\ [][NextVoice]_vars

\* The voice panel with Start Recording clicked again before onstart.
NextRestart ==
    \/ SetInteractionMode
    \/ startRecordingAgain
    \/ stopRecording
    \/ onstart
    \/ onend
    \/ onresult

SpecRestart == InitVoice /\ [][NextRestart]_vars

\* The session in a browser that lacks a capability: voice panel, submissions,
\* narration.
NextDegraded ==
    \/ Type
    \/ ClickSend
    \/ SettleTypical
    \/ SetInteractionMode
    \/ startRecording
    \/ onstart
    \/ onend
    \/ ToggleReadAloud
    \/ handleReadAloud
    \/ UtteranceEnds

SpecDegraded == InitDegraded /\ [][NextDegraded]_vars

\* ------------------------------------------------------------ Home
Pages == {"dashboard", "knowledge", "study"}

MaxVisits == 2

IsPending(f) == f.state = "pending"

\* setCurrentPage of the Navbar and the Dashboard. Home renders only the page named:
\* the page left is unmounted and its state dropped (the variables of a page not
\* shown hold the values its next mount starts with); what a StudyRoom had asked of
\* fetch stays outstanding, and so do the recognition instances of its voice panel.
setCurrentPage ==
    \E page \in Pages \ {currentPage} :
        /\ page = "study" => visits < MaxVisits
        /\ currentPage' = page
        /\ visits' = IF page = "study" THEN visits + 1 ELSE visits
        /\ IF currentPage = "study"
           THEN /\ lateFetches' = lateFetches \o SelectSeq(fetches, IsPending)
                /\ messages' = <<Greeting>>
                /\ ids' = <<1>>
                /\ inputValue' = <<>>
                /\ isLoading' = FALSE
                /\ interactionMode' = "text"
                /\ selectedImage' = Null
                /\ enableReadAloud' = FALSE
                /\ fetches' = <<>>
                /\ transcript' = <<>>
                /\ isRecording' = FALSE
                /\ recognizers' = BagOfAll(Orphaned, recognizers)
                /\ readingAloud' = {}
           ELSE UNCHANGED <<lateFetches, messages, ids, inputValue, isLoading,
                            interactionMode, selectedImage, enableReadAloud, fetches,
                            transcript, isRecording, recognizers, readingAloud>>
        /\ IF currentPage = "knowledge"
           THEN /\ selectedFiles' = <<>>
                /\ isProcessing' = FALSE
                /\ upload' = NoUpload
                /\ kbError' = <<>>
           ELSE UNCHANGED <<selectedFiles, isProcessing, upload, kbError>>
        /\ UNCHANGED <<chatRoute, ignored, synthQueue, capabilityVars, alerts, heard,
                       now, requests, kbVersion>>
        /\ UNCHANGED proxyVars
        /\ UNCHANGED resolverVars

\* handleSendMessage from its await on, in a StudyRoom that has been unmounted: the
\* state setters change nothing, speechSynthesis.speak is called as ever
SettleLate(origins) ==
    \E r \in 1..Len(lateFetches) : \E origin \in origins :
        LET res == Outcome[chatRoute][origin]
        IN  /\ lateFetches[r].state = "pending"
            /\ synthQueue' =
                   IF ~res.threw /\ Narrates(lateFetches[r].narrate, hasSynthesis, res.data.response)
                   THEN Speak(synthQueue, Utterance(res.data.response, 0))
                   ELSE synthQueue
            /\ lateFetches' = [lateFetches EXCEPT ![r] =
                                  [state |-> "settled", message |-> @.message,
                                   cleared |-> @.cleared,
                                   origin |-> origin, narrate |-> @.narrate]]
            /\ requests' = [requests EXCEPT !.backend = @ + BackendFetches(origin)]
            /\ UNCHANGED <<messages, inputValue, isLoading, interactionMode, selectedImage,
                           enableReadAloud, fetches, chatRoute, ignored, readingAloud,
                           capabilityVars, alerts, heard>>
            /\ UNCHANGED voiceVars
            /\ UNCHANGED <<currentPage, visits, now, ids>>
            /\ UNCHANGED <<kbVars, proxyVars>>
            /\ UNCHANGED resolverVars

SettleLateTypical == SettleLate(TypicalOrigins)

\* the millisecond clock moves on
MaxClock == 4

Tick ==
    /\ now < MaxClock
    /\ now' = now + 1
    /\ UNCHANGED <<studyVars, pageVars, ids, requests, kbVars, proxyVars>>
    /\ UNCHANGED resolverVars

\* ------------------------------------------------- the Knowledge Base
\* The first version keeps the selected files in state (a queue); the second reads the
\* files of the file input when the button is clicked.
KnowledgeBaseVersions == {"queue", "input"}

MaxFiles == 2

FileNames == {"a.pdf", "b.pdf"}

\* what the user can pick at once
Selections == { <<f>> : f \in FileNames } \cup { <<"a.pdf", "b.pdf">> }

NoFilesText == <<"No files to process. Please upload PDFs first.">>

\* handleFilesSelected; in the second version the files are those of the file input,
\* which holds the last selection
handleFilesSelected ==
    \E files \in Selections :
        /\ IF kbVersion = "queue"
           THEN /\ Len(selectedFiles) + Len(files) <= MaxFiles
                /\ selectedFiles' = selectedFiles \o files
                /\ UNCHANGED kbError
           ELSE /\ selectedFiles' = files
                /\ kbError' = <<>>
        /\ UNCHANGED <<kbVersion, isProcessing, upload>>
        /\ UNCHANGED <<studyVars, pageVars, now, ids, requests, proxyVars>>
        /\ UNCHANGED resolverVars

\* an upload in flight
Uploading(files) == [state |-> "pending", files |-> files, outcome |-> NoOutcome]

\* onClick of the Process button, handleProcessDocuments up to its await. The button
\* of the first version is disabled while isProcessing or with no file selected, that
\* of the second while isProcessing.
handleProcessDocuments ==
    /\ ~isProcessing
    /\ IF kbVersion = "queue"
       THEN /\ selectedFiles # <<>>
            /\ isProcessing' = TRUE
            /\ upload' = Uploading(selectedFiles)
            /\ UNCHANGED kbError
       ELSE IF selectedFiles = <<>>
            THEN /\ kbError' = NoFilesText
                 /\ isProcessing' = FALSE
                 /\ UNCHANGED upload
            ELSE /\ kbError' = <<>>
                 /\ isProcessing' = TRUE
                 /\ upload' = Uploading(selectedFiles)
    /\ UNCHANGED <<kbVersion, selectedFiles>>
    /\ UNCHANGED <<studyVars, pageVars, now, ids, requests, proxyVars>>
    /\ UNCHANGED resolverVars

\* what fetch("http://localhost:8080/api/upload") can settle with
UploadOutcomes ==
    { Rejected,
      Response(FALSE, Status500, TRUE, Data("false", Undefined, NoImages, BackendError)),
      Response(FALSE, Status404, FALSE, NoData),
      Response(TRUE, Status200, FALSE, NoData),
      Response(TRUE, Status200, TRUE, Data("true", Undefined, NoImages, Undefined)),
      Response(TRUE, Status200, TRUE, Data("false", Undefined, NoImages, BackendError)) }

\* first version: the try block reaches setSelectedFiles([])
ReachesClear(o) == o.kind = "response" /\ o.ok /\ o.parsable

\* second version: what setError is given, if it is called
UploadError(o) ==
    IF o.kind = "rejected" THEN <<"Failed to fetch">>
    ELSE IF ~o.parsable THEN SyntaxErrorMessage
    ELSE IF ~o.ok THEN OrElse(o.data.error, <<"Upload failed with status ">> \o o.status)
    ELSE IF o.data.success # "true" THEN OrElse(o.data.error, <<"Processing failed">>)
    ELSE <<>>

\* handleProcessDocuments from its await on: try, catch, finally
UploadSettles ==
    \E o \in UploadOutcomes :
        /\ upload.state = "pending"
        /\ IF kbVersion = "queue"
           THEN /\ selectedFiles' = IF ReachesClear(o) THEN <<>> ELSE selectedFiles
                /\ UNCHANGED kbError
           ELSE /\ kbError' = UploadError(o)
                /\ UNCHANGED selectedFiles
        /\ isProcessing' = FALSE
        /\ upload' = [state |-> "settled", files |-> upload.files, outcome |-> o]
        /\ UNCHANGED kbVersion
        /\ UNCHANGED <<studyVars, pageVars, now, ids, requests, proxyVars>>
        /\ UNCHANGED resolverVars

\* ------------------------------------------- the proxy handlers on their own
ProxyRoutes == ChatRoutes \cup {"voice"}

\* POST of the voice route
PostVoice(b) ==
    IF b.kind = "rejected" \/ ~b.ok \/ ~b.parsable
    THEN ErrorResponse(ProxyErrorMessage(b), Status500)
    ELSE Response(TRUE, Status200, TRUE, RelayedData(b.data))

\* the backend outcomes the handlers are looked at with
ProxyBackendOutcomes ==
    BackendOutcomes \cup { Response(FALSE, Status404, FALSE, NoData),
                           Response(FALSE, Status404, TRUE,
                                    Data("false", Undefined, NoImages, BackendError)) }

\* the catch block after request.json() threw
UnparsableRequest(route) ==
    IF route = "relaying"
    THEN ErrorResponse(<<"Could not connect to Python backend. Is it running on port 8080?">>,
                       Status500)
    ELSE ErrorResponse(SyntaxErrorMessage, Status500)

\* POST, of each route: request.json(), then the fetch of the backend and its result
POST(route, parsable, b) ==
    IF ~parsable THEN UnparsableRequest(route)
    ELSE IF route = "voice" THEN PostVoice(b)
    ELSE IF route = "resolving" THEN PostResolving(b)
    ELSE PostRelaying(b)

Calls ==
    { [route |-> route, parsable |-> parsable, backend |-> b] :
          route \in ProxyRoutes, parsable \in BOOLEAN, b \in ProxyBackendOutcomes }

InitProxy ==
    /\ Mounted
    /\ chatRoute = "resolving"
    /\ hasRecognition = TRUE
    /\ hasSynthesis = TRUE
    /\ currentPage = "dashboard"
    /\ visits = 0
    /\ kbVersion = "queue"
    /\ KnowledgeBaseMounted
    /\ call \in Calls
    /\ answer = NoOutcome

Respond ==
    /\ answer = NoOutcome
    /\ answer' = POST(call.route, call.parsable, call.backend)
    /\ UNCHANGED call
    /\ UNCHANGED <<studyVars, pageVars, now, ids, requests, kbVars>>
    /\ UNCHANGED resolverVars

NextProxy == Respond

SpecProxy == InitProxy /\ [][NextProxy]_vars

\* ---------------------------------------------- further specifications
\* Home with the Dashboard shown, the Study Room not yet visited
InitHome ==
    /\ Mounted
    /\ chatRoute = "resolving"
    /\ hasRecognition = TRUE
    /\ hasSynthesis = TRUE
    /\ currentPage = "dashboard"
    /\ visits = 0
    /\ kbVersion = "queue"
    /\ KnowledgeBaseMounted
    /\ ProxyIdle

\* Navigation between the pages, with submissions in the Study Room and responses
\* that arrive before and after it is left.
NextNavigate ==
    \/ setCurrentPage
    \/ (currentPage = "study" /\ Type)
    \/ (currentPage = "study" /\ ClickSend)
    \/ (currentPage = "study" /\ ToggleReadAloud)
    \/ (currentPage = "study" /\ SettleTypical)
    \/ SettleLateTypical
    \/ UtteranceEnds

SpecNavigate == InitHome /\ [][NextNavigate]_vars

\* The session in text mode with the clock moving.
NextClock ==
    \/ Type
    \/ ClickSend
    \/ SettleTypical
    \/ Tick

SpecClock == InitVoice /\ [][NextClock]_vars

\* Home with the Knowledge Base shown, in either version
InitKnowledgeBase ==
    /\ Mounted
    /\ chatRoute = "resolving"
    /\ hasRecognition = TRUE
    /\ hasSynthesis = TRUE
    /\ currentPage = "knowledge"
    /\ visits = 0
    /\ kbVersion \in KnowledgeBaseVersions
    /\ KnowledgeBaseMounted
    /\ ProxyIdle

NextKnowledgeBase ==
    \/ handleFilesSelected
    \/ handleProcessDocuments
    \/ UploadSettles

SpecKnowledgeBase == InitKnowledgeBase /\ [][NextKnowledgeBase]_vars

\* ---- what the claims about the session speak of
\* the requests that are outstanding
Outstanding == { r \in 1..Len(fetches) : fetches[r].state = "pending" }

SettledFetches == { r \in 1..Len(fetches) : fetches[r].state = "settled" }

\* the indices of the Turns a submission appended
TurnsOf(r) == { k \in 1..Len(messages) : messages[k].req = r }

UserTurns(msgs) == { k \in 1..Len(msgs) : msgs[k].role = "user" }

\* a step dispatches a request
Dispatches == Len(fetches') > Len(fetches)

\* a step completes the round trip of submission r
Completes(r) ==
    /\ r \in 1..Len(fetches)
    /\ fetches[r].state = "pending"
    /\ fetches'[r].state = "settled"

IsPrefix(a, b) == Len(a) <= Len(b) /\ SubSeq(b, 1, Len(a)) = a

IsSuffix(a, b) == Len(a) <= Len(b) /\ SubSeq(b, Len(b) - Len(a) + 1, Len(b)) = a

Contains(b, a) == \E i \in 0..(Len(b) - Len(a)) : SubSeq(b, i + 1, i + Len(a)) = a

\* text that is empty or all whitespace
AllWhitespace(text) == \A k \in 1..Len(text) : text[k] \in {" ", "\t", "\n"}

\* what fetch("/api/chat") settled with, for a settled submission
ResultOf(r) == Settled(chatRoute, fetches[r].origin)

\* C1 as stated: a submission attempt made while isLoading is true appends no user
\* Turn and dispatches no request, and at most one request is outstanding.
C1_SingleFlight ==
    [][ /\ isLoading => (~Dispatches /\ UserTurns(messages') = UserTurns(messages))
        /\ Cardinality(Outstanding') <= 1 ]_vars

\* C2 as stated: the transcript never holds two adjacent Turns that both have role
\* user.
C2_NoAdjacentUserTurns ==
    \A k \in 1..(Len(messages) - 1) :
        ~(messages[k].role = "user" /\ messages[k + 1].role = "user")

\* C3: isLoading is true after a dispatch; a submission's finally block has run
\* setIsLoading(false) no times while its request is outstanding and exactly once when
\* it has settled, whatever the outcome; and if fetch settles, isLoading always
\* returns to false.
C3_LoadingClearedOnce ==
    /\ [](\A r \in 1..Len(fetches) :
             fetches[r].cleared = (IF fetches[r].state = "settled" THEN 1 ELSE 0))
    /\ [][ /\ Dispatches => isLoading'
           /\ \A r \in 1..Len(fetches) : Completes(r) => ~isLoading' ]_vars
    /\ (isLoading ~> ~isLoading)

\* every outcome of the claim has been settled with, and the controller is idle
C3_Witness ==
    /\ Len(fetches) = MaxSubmissions
    /\ SettledFetches = 1..Len(fetches)
    /\ ~isLoading
    /\ \E r \in SettledFetches :
           fetches[r].origin.via = "server" /\ ~ResultOf(r).parsable /\ ResultOf(r).ok
    /\ \E r \in SettledFetches : ~Outcome[chatRoute][fetches[r].origin].threw

\* the round trip of a settled submission failed: no response, a status that is not
\* a success, or a body with success: false
Failed(r) ==
    LET o == ResultOf(r)
    IN  \/ o.kind = "rejected"
        \/ ~o.ok
        \/ (o.parsable /\ o.data.success = "false")

\* The failure reason of a failed round trip: the error message of the body when it
\* has one, the status when the status is what failed, and otherwise (no response, a
\* body that does not parse) whatever non-empty text says so.
Reason(r) ==
    LET o == ResultOf(r)
    IN  IF o.kind = "response" /\ o.parsable /\ o.data.error \notin {Undefined, <<>>}
        THEN o.data.error
        ELSE IF o.kind = "response" /\ o.parsable /\ ~o.ok THEN o.status
        ELSE <<>>

IsDiagnostic(msg, reason) ==
    /\ msg.role = "assistant"
    /\ IsPrefix(ErrorPrefix, msg.content)
    /\ IsSuffix(ErrorHelp, msg.content)
    /\ Len(msg.content) > Len(ErrorPrefix) + Len(ErrorHelp)
    /\ Contains(msg.content, reason)

\* C4: a submission whose round trip failed has appended exactly two Turns, its user
\* Turn and after it one assistant Turn whose content embeds the failure reason, and
\* the step that completes it leaves isLoading false.
C4_FailureIsVisible ==
    /\ [](\A r \in SettledFetches :
             Failed(r) =>
                 /\ Cardinality(TurnsOf(r)) = 2
                 /\ \E i, j \in TurnsOf(r) :
                        /\ i < j
                        /\ messages[i].role = "user"
                        /\ messages[i].content = fetches[r].message
                        /\ IsDiagnostic(messages[j], Reason(r)))
    /\ [][ \A r \in 1..Len(fetches) : (Completes(r) /\ Failed(r)') => ~isLoading' ]_vars

\* submissions have failed on a status that is not a success and on success: false
C4_Witness ==
    /\ \E r \in SettledFetches : ResultOf(r).kind = "response" /\ ~ResultOf(r).ok
    /\ \E r \in SettledFetches : ResultOf(r).ok /\ ResultOf(r).data.success = "false"
    /\ ~isLoading

\* the round trip of a settled submission succeeded: the route relayed an answer of
\* the backend with success: true and a response text
Succeeded(r) ==
    /\ fetches[r].origin.via = "route"
    /\ fetches[r].origin.backend.kind = "response"
    /\ fetches[r].origin.backend.ok
    /\ fetches[r].origin.backend.parsable
    /\ fetches[r].origin.backend.data.success = "true"
    /\ fetches[r].origin.backend.data.response \notin {Undefined, <<>>}

BackendData(r) == fetches[r].origin.backend.data

\* C5 as stated: a submission whose round trip succeeded has appended exactly two
\* Turns, a user Turn with the submitted text and after it an assistant Turn with the
\* backend's response text and the backend's image list, every entry resolved, in the
\* same order and of the same length.
C5_SuccessAppendsReply ==
    \A r \in SettledFetches :
        Succeeded(r) =>
            /\ Cardinality(TurnsOf(r)) = 2
            /\ \E i, j \in TurnsOf(r) :
                   /\ i < j
                   /\ messages[i].role = "user"
                   /\ messages[i].content = fetches[r].message
                   /\ messages[j].role = "assistant"
                   /\ messages[j].content = BackendData(r).response
                   /\ LET given == IF BackendData(r).images = NoImages
                                   THEN <<>> ELSE BackendData(r).images
                      IN  /\ Len(messages[j].images) = Len(given)
                          /\ \A n \in 1..Len(given) :
                                 messages[j].images[n] = ResolveImagePath(given[n])

\* a step is a call of handleSendMessage that its guard ended
Ignores == ignored' # ignored

\* C6: a submission of text that is empty or all whitespace is never accepted, and
\* the call its guard ends changes none of messages, inputValue, isLoading,
\* interactionMode, enableReadAloud and selectedImage, and dispatches nothing.
C6_BlankIsNoOp ==
    [][ /\ AllWhitespace(inputValue) => ~Dispatches
        /\ Ignores => /\ AllWhitespace(inputValue)
                      /\ UNCHANGED <<messages, inputValue, isLoading, interactionMode,
                                     enableReadAloud, selectedImage, fetches>> ]_vars

\* a submission of whitespace has been ignored after an answer with images was
\* enlarged and Read Aloud was switched on
C6_Witness ==
    /\ ignored
    /\ inputValue = <<" ">>
    /\ enableReadAloud
    /\ selectedImage # Null
    /\ Len(messages) = 3

\* C7: a reply Turn comes after the user Turn of its own submission, and no prefix of
\* the transcript holds more reply Turns than user Turns.
C7_RequestBeforeReply ==
    /\ \A k \in 1..Len(messages) :
           (messages[k].role = "assistant" /\ messages[k].req # 0) =>
               \E i \in 1..(k - 1) :
                   messages[i].role = "user" /\ messages[i].req = messages[k].req
    /\ \A n \in 1..Len(messages) :
           Cardinality({ k \in 1..n : messages[k].role = "assistant" /\ messages[k].req # 0 })
               <= Cardinality({ k \in 1..n : messages[k].role = "user" })

\* two requests were outstanding at once and the second was answered first
C7_Witness ==
    /\ Len(fetches) >= 2
    /\ SettledFetches = 1..Len(fetches)
    /\ \E i, j \in 1..Len(messages) :
           /\ i < j
           /\ messages[i].role = "assistant" /\ messages[i].req = 2
           /\ messages[j].role = "assistant" /\ messages[j].req = 1

\* C8: every step leaves the transcript a prefix of the next one, and its first Turn
\* is the greeting.
C8_AppendOnly ==
    /\ [](Len(messages) >= 1 /\ messages[1] = Greeting)
    /\ [][IsPrefix(messages, messages')]_vars

\* the transcript has grown by user Turns and by Turns of both kinds of reply
C8_Witness ==
    /\ Len(messages) = 1 + 2 * MaxSubmissions
    /\ \E k \in 1..Len(messages) : IsPrefix(ErrorPrefix, messages[k].content)
    /\ \E k \in 1..Len(messages) : messages[k].content = ReplyText

\* a stored media entry is a backend path of the shape <document>/page_<n>/<filename>
\* that the rewrite has not been applied to
IsUnresolved(entry) ==
    /\ ImageMatch(entry).matched
    /\ ~IsPrefix(backendUrl \o ApiImages, entry)

\* C10 as stated: no media entry stored in a Turn is an unresolved backend path.
C10_StoredMediaResolved ==
    \A k \in 1..Len(messages) :
        messages[k].images # NoImages =>
            \A n \in 1..Len(messages[k].images) : ~IsUnresolved(messages[k].images[n])

\* ---- claim C9 (the image rewrite)
\* the shape <document>/page_<n>/<filename>, told from the segments of a path
IsPageSegment(seg) ==
    /\ Len(seg) > 5
    /\ SubSeq(seg, 1, 5) = <<"p","a","g","e","_">>
    /\ \A k \in 6..Len(seg) : seg[k] \in {"0","1","2","3","4","5","6","7","8","9"}

IsShape(ss) ==
    /\ Len(ss) = 3
    /\ ss[1] # <<>>
    /\ IsPageSegment(ss[2])
    /\ ss[3] # <<>>

LastThree(ss) == SubSeq(ss, Len(ss) - 2, Len(ss))

EndsWithShape(ss) == Len(ss) >= 3 /\ IsShape(LastThree(ss))

\* C9 as stated: a path of the shape <document>/page_<n>/<filename> resolves to
\* <base>/api/images/<path>, and every path not of that shape is returned unchanged.
C9_ShapeOrUnchanged ==
    phase = "out" =>
        IF IsShape(segs)
        THEN resolved = backendUrl \o ApiImages \o path
        ELSE resolved = path

\* C9 amended: a path that ends with <document>/page_<n>/<filename> (document and
\* filename not empty and without "/", n a run of digits) resolves to
\* <base>/api/images/<document>/page_<n>/<filename>, whatever directories come before
\* <document> being dropped; every other path is returned unchanged.
C9_SuffixRewritten ==
    phase = "out" =>
        IF EndsWithShape(segs)
        THEN resolved = backendUrl \o ApiImages \o JoinSlash(LastThree(segs))
        ELSE resolved = path

\* a path with a directory before <document> has been rewritten
C9_Witness ==
    /\ phase = "out"
    /\ Len(segs) = 4
    /\ EndsWithShape(segs)
    /\ segs[1] # <<>>
    /\ resolved # path

\* ---- what the claims about speech speak of
\* a step gives a recognition event to an onresult handler
Hears == heard' # heard

\* a step in which an onresult handler passes a finalized utterance to onInput
Forwards == Hears /\ heard'.forwarded # <<>>

\* the instances whose capture session is on (started and not stopped)
Capturing(bag) == { rec \in BagToSet(bag) : rec.state \in {"starting", "running"} }

\* the instances that can give an event to their onresult handler
Delivering(bag) == { rec \in BagToSet(bag) : rec.state \in {"running", "stopping"} }

\* the interim texts of an event
InterimTexts(results) ==
    { results[n].transcript : n \in { m \in 1..Len(results) : ~results[m].isFinal } }

\* the finalized utterances of an event, in arrival order
FinalTexts(results) ==
    LET finalResults == SelectSeq(results, LAMBDA res : res.isFinal)
    IN  [n \in 1..Len(finalResults) |-> finalResults[n].transcript]

\* C11 as stated: a switch from voice to text leaves no capture session on, and no
\* finalized utterance is passed to the controller while the mode is text (inputValue
\* is not written by speech capture in text mode).
C11_SwitchStopsCapture ==
    [][ /\ (interactionMode = "voice" /\ interactionMode' = "text") =>
               Capturing(recognizers') = {}
        /\ interactionMode = "text" => ~Forwards ]_vars

\* C12: a mode switch changes none of inputValue, messages, isLoading,
\* enableReadAloud and selectedImage and dispatches nothing; what inputValue holds
\* after it is not an interim text of the last recognition event.
C12_ModeSwitchKeepsInput ==
    [][ interactionMode' # interactionMode =>
            /\ UNCHANGED <<inputValue, messages, isLoading, enableReadAloud,
                           selectedImage, fetches>>
            /\ inputValue' \notin InterimTexts(heard.results) ]_vars

\* the mode was switched from voice to text while an instance was starting (it has
\* delivered nothing), after an event with a final and an interim result; the final
\* text is still the pending input
C12_Witness ==
    /\ interactionMode = "text"
    /\ inputValue = <<"b">>
    /\ heard.results = <<Result(<<"b">>, TRUE), Result(<<"c">>, FALSE)>>
    /\ BagToSet(recognizers) = { Recognizer("starting", FALSE, FALSE) }

\* C13 as stated: in the state right after Read Aloud is switched off no utterance
\* is spoken or queued, and no Message shows itself as being read aloud.
C13_ToggleOffCancels ==
    [][ (enableReadAloud /\ ~enableReadAloud') =>
            (synthQueue' = <<>> /\ readingAloud' = {}) ]_vars

\* the Turn a completing step appends
LastTurn(msgs) == msgs[Len(msgs)]

\* C14 as stated: the step that appends the reply of a submission gives the reply's
\* content to speechSynthesis exactly when the reply is a successful one and
\* enableReadAloud is true at that step; otherwise it gives it nothing.
C14_NarratesWhenEnabled ==
    [][ \A r \in 1..Len(fetches) :
            Completes(r) =>
                IF Succeeded(r)' /\ enableReadAloud
                THEN synthQueue' = Append(synthQueue,
                                          [text |-> LastTurn(messages').content, owner |-> 0])
                ELSE synthQueue' = synthQueue ]_vars

\* C15 as stated: when an utterance is given to speechSynthesis, no earlier one is
\* still spoken or queued.
C15_OnePlayback ==
    [][ Len(synthQueue') > Len(synthQueue) => Len(synthQueue') = 1 ]_vars

\* C16 as stated: a Message shows itself as being read aloud only while an utterance
\* of it is spoken or queued.
C16_IndicatorFollowsPlayback ==
    readingAloud \subseteq Owners(synthQueue)

\* the number of instances of the mounted panel whose capture session is on
SessionsOn(bag) ==
    LET on == { rec \in Capturing(bag) : rec.mounted }
    IN  BagCardinality([rec \in on |-> bag[rec]])

\* C17 as stated: at most one capture session of the panel is on, and no step makes a
\* new instance while one is on.
C17_SingleCapture ==
    [][ /\ SessionsOn(recognizers') <= 1
        /\ SessionsOn(recognizers) >= 1 =>
               BagCardinality(recognizers') <= BagCardinality(recognizers) ]_vars

\* C18: an event whose results are all interim changes none of inputValue, the
\* dictation buffer and the transcript; no event changes the transcript; and after
\* any event neither inputValue nor the dictation buffer nor a Turn holds an interim
\* text of it.
C18_InterimNeverStored ==
    [][ Hears =>
            /\ FinalTexts(heard'.results) = <<>> =>
                   UNCHANGED <<inputValue, transcript, messages>>
            /\ messages' = messages
            /\ \A t \in InterimTexts(heard'.results) :
                   /\ inputValue' # t
                   /\ ~Contains(transcript', t)
                   /\ \A k \in 1..Len(messages') : messages'[k].content # t ]_vars

\* an event of one interim result came after a final one: buffer and input still
\* hold the final text only
C18_Witness ==
    /\ heard.results = <<Result(<<"c">>, FALSE)>>
    /\ transcript = <<" ", "b">>
    /\ inputValue = <<"b">>
    /\ interactionMode = "voice"

\* the texts joined by single spaces, after what the buffer holds
RECURSIVE SpaceJoined(_, _)
SpaceJoined(prev, texts) ==
    IF texts = <<>> THEN prev
    ELSE SpaceJoined(IF prev = <<>> THEN Head(texts) ELSE prev \o <<" ">> \o Head(texts),
                     Tail(texts))

\* each text with a space before it
RECURSIVE SpacePrefixed(_)
SpacePrefixed(texts) ==
    IF texts = <<>> THEN <<>> ELSE <<" ">> \o Head(texts) \o SpacePrefixed(Tail(texts))

\* every instance that can deliver an event belongs to the mounted panel
AllOfPanel == \A rec \in Delivering(recognizers) : rec.mounted

\* every instance that can deliver an event outlived its panel
NoneOfPanel == \A rec \in Delivering(recognizers) : ~rec.mounted

\* C19 as stated: an event passes each of its finalized utterances once to the
\* controller, in order, and leaves the dictation buffer the space-joined
\* concatenation of what it held and of them.
C19_SpaceJoined ==
    [][ (Hears /\ AllOfPanel) =>
            /\ heard'.forwarded = FinalTexts(heard'.results)
            /\ transcript' = SpaceJoined(transcript, FinalTexts(heard'.results)) ]_vars

\* C19 amended: an event passes each of its finalized utterances once to the
\* controller, in order (inputValue becomes the last of them); an event of an
\* instance of the mounted panel appends each of them to the dictation buffer with a
\* space before it, so that the buffer begins with a space; an event of an instance
\* that outlived its panel leaves the buffer alone.
C19_UtterancesAccumulate ==
    [][ Hears =>
            LET finals == FinalTexts(heard'.results)
                grown  == transcript \o SpacePrefixed(finals)
            IN  /\ heard'.forwarded = finals
                /\ inputValue' = IF finals = <<>> THEN inputValue ELSE finals[Len(finals)]
                /\ IF AllOfPanel THEN transcript' = grown
                   ELSE IF NoneOfPanel THEN transcript' = transcript
                   ELSE transcript' \in {grown, transcript} ]_vars

\* three finalized utterances in two events have been accumulated
C19_Witness ==
    /\ transcript = <<" ", "b", " ", "d", " ", "b">>
    /\ heard.forwarded = << <<"d">>, <<"b">> >>
    /\ inputValue = <<"b">>

\* C20: without speech recognition no instance is ever made, the panel never
\* records and its buffer stays empty, and a step that alerts changes nothing else;
\* without speech synthesis nothing is ever given to speechSynthesis and no Message
\* shows itself as being read aloud; and every settled submission has its user Turn
\* and then its reply.
C20_DegradesGracefully ==
    /\ [](~hasRecognition =>
              /\ recognizers = EmptyBag
              /\ ~isRecording
              /\ transcript = <<>>
              /\ heard = NoEvent)
    /\ [](~hasSynthesis => (synthQueue = <<>> /\ readingAloud = {}))
    /\ [](\A r \in SettledFetches :
              /\ Cardinality(TurnsOf(r)) = 2
              /\ \E i, j \in TurnsOf(r) :
                     /\ i < j
                     /\ messages[i].role = "user"
                     /\ messages[j].role = "assistant")
    /\ [][ alerts' # alerts =>
               /\ ~hasRecognition
               /\ UNCHANGED <<messages, inputValue, isLoading, interactionMode, selectedImage,
                              enableReadAloud, fetches, transcript, isRecording, recognizers,
                              synthQueue, readingAloud, heard>> ]_vars

\* in a browser with neither capability Start Recording has alerted, and a reply
\* that was to be narrated has been appended with nothing given to speechSynthesis
C20_Witness ==
    /\ ~hasRecognition
    /\ ~hasSynthesis
    /\ alerts
    /\ interactionMode = "voice"
    /\ \E r \in SettledFetches : Succeeded(r) /\ fetches[r].narrate
    /\ synthQueue = <<>>

\* ---- claims C21 to C30
\* the user Turn of a submission
UserTurnOf(r) == CHOOSE k \in TurnsOf(r) : messages[k].role = "user"

\* C21 as stated: the text a request carries is the trimmed form of the text that
\* was submitted.
C21_RequestCarriesTrimmed ==
    \A r \in 1..Len(fetches) :
        fetches[r].message = Trim(messages[UserTurnOf(r)].content)

\* C25: a step that changes selectedImage changes none of messages, inputValue,
\* isLoading, interactionMode and enableReadAloud and dispatches nothing;
\* selectedImage is null or one rendered image; and closing the viewer leaves null.
C25_MediaIsLocal ==
    /\ [](selectedImage = Null \/ selectedImage \in RenderedImages)
    /\ [][ selectedImage' # selectedImage =>
               /\ UNCHANGED <<messages, inputValue, isLoading, interactionMode,
                              enableReadAloud, fetches>>
               /\ (selectedImage # Null => selectedImage' \in RenderedImages \cup {Null}) ]_vars

\* an image of a reply is enlarged while a text is typed and read-aloud is on
C25_Witness ==
    /\ selectedImage \in RenderedImages
    /\ ~IsBlank(inputValue)
    /\ enableReadAloud
    /\ ~isLoading

\* C28: in voice mode an event with finalized utterances leaves inputValue the last
\* of them, a submission makes a user Turn of what inputValue holds (which is not
\* the dictation buffer), clears inputValue and leaves the buffer alone, and no other
\* step changes inputValue; a Send with inputValue empty changes nothing.
C28_VoiceSendsLastUtterance ==
    [][ (interactionMode = "voice" /\ interactionMode' = "voice") =>
            /\ IF Forwards
               THEN inputValue' = heard'.forwarded[Len(heard'.forwarded)]
               ELSE IF Dispatches
               THEN /\ LastTurn(messages').role = "user"
                    /\ LastTurn(messages').content = inputValue
                    /\ inputValue # transcript
                    /\ inputValue' = <<>>
                    /\ transcript' = transcript
               ELSE inputValue' = inputValue
            /\ Ignores => UNCHANGED <<messages, inputValue, isLoading, fetches, transcript>> ]_vars

\* after two utterances the last one was sent, and a second Send was ignored while
\* the buffer still shows both
C28_Witness ==
    /\ interactionMode = "voice"
    /\ transcript = <<" ", "d", " ", "b">>
    /\ inputValue = <<>>
    /\ ignored
    /\ \E k \in 1..Len(messages) : messages[k].role = "user" /\ messages[k].content = <<"b">>

\* C29: in text mode while isLoading is true no step dispatches a request or appends
\* a user Turn; the transcript grows only by the reply of an outstanding request.
C29_TextModeSingleFlight ==
    [][ (interactionMode = "text" /\ isLoading) =>
            /\ ~Dispatches
            /\ UserTurns(messages') = UserTurns(messages)
            /\ Len(messages') # Len(messages) => \E r \in 1..Len(fetches) : Completes(r) ]_vars

\* text mode with a request outstanding and a text waiting in the input
C29_Witness ==
    /\ interactionMode = "text"
    /\ isLoading
    /\ ~IsBlank(inputValue)
    /\ Outstanding # {}

\* the assistant Turn of a settled submission
AssistantTurnOf(r) == CHOOSE k \in TurnsOf(r) : messages[k].role = "assistant"

\* the chat endpoint answered OK with a body that parses
Answered(r) ==
    /\ ResultOf(r).kind = "response"
    /\ ResultOf(r).ok
    /\ ResultOf(r).parsable

LacksSuccess(r) == Answered(r) /\ ResultOf(r).data.success = "undefined"

LacksText(r) ==
    /\ Answered(r)
    /\ ResultOf(r).data.success = "true"
    /\ ResultOf(r).data.response \in {Undefined, <<>>}

StartsAsDiagnostic(msg) == msg.role = "assistant" /\ IsPrefix(ErrorPrefix, msg.content)

\* C22 as stated: a response without a success field, or with success true and no
\* response text, is treated as a failure: its assistant Turn carries a failure
\* diagnostic, never a normal reply.
C22_MalformedIsFailure ==
    \A r \in SettledFetches :
        (LacksSuccess(r) \/ LacksText(r)) => StartsAsDiagnostic(messages[AssistantTurnOf(r)])

\* C22, amended: either malformed response completes the submission with exactly one
\* assistant Turn and clears isLoading once; without a success field the Turn is the
\* diagnostic with the generic reason; with success true and no response text it
\* is a normal reply with the fixed fallback text and the images of the response.
C22_MalformedHandled ==
    \A r \in SettledFetches :
        (LacksSuccess(r) \/ LacksText(r)) =>
            /\ Cardinality({k \in TurnsOf(r) : messages[k].role = "assistant"}) = 1
            /\ fetches[r].cleared = 1
            /\ LacksSuccess(r) =>
                   IsDiagnostic(messages[AssistantTurnOf(r)], <<"Failed to get response from AI">>)
            /\ LacksText(r) =>
                   /\ messages[AssistantTurnOf(r)].content = FallbackText
                   /\ messages[AssistantTurnOf(r)].images =
                          (IF ResultOf(r).data.images = NoImages
                           THEN <<>> ELSE ResultOf(r).data.images)
                   /\ ~StartsAsDiagnostic(messages[AssistantTurnOf(r)])

\* both malformed responses have been received, the one without text with an image
C22_Witness ==
    /\ \E r \in SettledFetches : LacksSuccess(r)
    /\ \E r \in SettledFetches : LacksText(r) /\ ResultOf(r).data.response = Undefined
    /\ ~isLoading

\* the request is one the handler cannot answer from the backend
CallFails(c) ==
    \/ ~c.parsable
    \/ c.backend.kind = "rejected"
    \/ ~c.backend.ok
    \/ ~c.backend.parsable

\* the answer is a JSON body with success false and an error message
IsFailureBody(a) ==
    /\ a.kind = "response"
    /\ a.parsable
    /\ ~a.ok
    /\ a.data.success = "false"
    /\ Truthy(a.data.error)

\* the answer is the backend's body, with status 200
Relays(a, c) ==
    /\ a.kind = "response"
    /\ a.parsable
    /\ a.ok
    /\ a.status = Status200
    /\ a.data.success = c.backend.data.success
    /\ a.data.response = c.backend.data.response
    /\ a.data.error = c.backend.data.error
    /\ IF c.backend.data.images = NoImages
       THEN a.data.images = NoImages
       ELSE /\ Len(a.data.images) = Len(c.backend.data.images)
            /\ c.route # "resolving" => a.data.images = c.backend.data.images

\* the backend answered the relaying chat route with a non-OK status
RelaysStatus(c) ==
    /\ c.route = "relaying"
    /\ c.parsable
    /\ c.backend.kind = "response"
    /\ ~c.backend.ok

\* C23 as stated: whatever the request and the backend, a handler returns a JSON
\* response; when the request body is unparsable, the backend fetch rejects, the
\* backend answers non-OK or with a body that is not JSON, it has success false, an
\* error message and status 500; only an OK backend answer is relayed.
C23_FailuresAreStatus500 ==
    answer # NoOutcome =>
        IF CallFails(call)
        THEN IsFailureBody(answer) /\ answer.status = Status500
        ELSE Relays(answer, call)

\* C23, amended: as stated, except that the status-relaying chat route answers a
\* non-OK backend status with that status instead of 500.
C23_FailuresAreCaught ==
    answer # NoOutcome =>
        IF CallFails(call)
        THEN /\ IsFailureBody(answer)
             /\ answer.status = (IF RelaysStatus(call) THEN call.backend.status ELSE Status500)
        ELSE Relays(answer, call)

\* the relaying route has answered a backend 404, and answered with 404
C23_Witness ==
    /\ answer # NoOutcome
    /\ RelaysStatus(call)
    /\ call.backend.status = Status404
    /\ answer.status = Status404
    /\ IsFailureBody(answer)

\* a response arrives for a request of a StudyRoom that is no longer mounted
LateCompletes ==
    \E r \in 1..Len(lateFetches) :
        /\ lateFetches[r].state = "pending"
        /\ Len(lateFetches') = Len(lateFetches)
        /\ lateFetches'[r].state = "settled"

\* C24 as stated: a response that arrives after the Study Room was left appends to no
\* transcript, faults nothing and has no other observable effect: no state of the
\* page shown changes and no narration is started.
C24_LateResponseIsSilent ==
    [][ LateCompletes =>
            UNCHANGED <<messages, inputValue, isLoading, interactionMode, selectedImage,
                        enableReadAloud, fetches, synthQueue, readingAloud>> ]_vars

\* C26 as stated: no two Turns of the transcript share an id, and a Turn appended
\* later never has a smaller id than one appended earlier.
C26_IdsUniqueAndOrdered ==
    /\ \A i, j \in 1..Len(ids) : i # j => ids[i] # ids[j]
    /\ \A i, j \in 1..Len(ids) : i < j => ids[i] <= ids[j]

\* the settled requests the route answered
RouteAnswered == { r \in SettledFetches : fetches[r].origin.via = "route" }

\* C27 as stated: each accepted submission has caused exactly one request to the chat
\* endpoint and, once settled, exactly one request from the proxy to the backend.
C27_OneRequestEach ==
    /\ requests.chat = Cardinality(UserTurns(messages))
    /\ requests.backend = Cardinality(SettledFetches)

\* C27, amended: each accepted submission has caused exactly one request to the chat
\* endpoint; the proxy has made exactly one request to the backend for each request
\* that reached it and none for the others; and no step but a dispatch or a completion
\* makes a request, a completion none to the chat endpoint (nothing is retried).
C27_OneRoundTripNoRetry ==
    /\ [](requests.chat = Cardinality(UserTurns(messages)))
    /\ [](requests.chat = Len(fetches))
    /\ [](requests.backend = Cardinality(RouteAnswered))
    /\ [][ /\ requests' # requests => (Dispatches \/ \E r \in 1..Len(fetches) : Completes(r))
           /\ (\E r \in 1..Len(fetches) : Completes(r)) => requests'.chat = requests.chat ]_vars

\* two submissions have failed, one at the backend and one before the route, and
\* nothing is outstanding
C27_Witness ==
    /\ Len(fetches) = 2
    /\ Outstanding = {}
    /\ \E r \in SettledFetches :
           /\ fetches[r].origin.via = "route"
           /\ fetches[r].origin.backend.kind = "rejected"
    /\ \E r \in SettledFetches : fetches[r].origin.via = "server"
    /\ requests = [chat |-> 2, backend |-> 1]

\* the upload succeeded: an OK response whose body says success
UploadSucceeded(o) ==
    /\ o.kind = "response"
    /\ o.ok
    /\ o.parsable
    /\ o.data.success = "true"

\* C30 as stated: a click with no file selected sends no request and leaves
\* isProcessing false; isProcessing is true exactly while an upload is outstanding; and
\* the step that settles an upload empties the selected files only if the upload
\* succeeded and otherwise leaves them as they are.
C30_UploadLifecycle ==
    /\ [](isProcessing <=> upload.state = "pending")
    /\ [][ /\ (kbError' = NoFilesText /\ kbError # NoFilesText) =>
                  (upload' = upload /\ ~isProcessing')
           /\ (upload.state = "pending" /\ upload'.state = "settled") =>
                  /\ ~isProcessing'
                  /\ IF UploadSucceeded(upload'.outcome)
                     THEN selectedFiles' \in {<<>>, selectedFiles}
                     ELSE selectedFiles' = selectedFiles ]_vars

====
